---- MODULE Spec2Model ----
(***************************************************************************)
(* A model of Daft's logical-to-physical planner (daft-plan/planner.rs)    *)
(* and of the element-wise min/max kernels (daft-core/array/ops/clip.rs),  *)
(* their Series dispatch (daft-core/series/ops/clip.rs) and the scalar     *)
(* functions binary_min, binary_max and clip (daft-functions/numeric).     *)
(* plan is a pure recursive function; it is modelled as a recursive        *)
(* operator and applied by the action PlanCall to logical plans drawn from *)
(* bounded sets.  A Rust panic is modelled as a result of its own tag,     *)
(* distinct from an Err value.                                             *)
(***************************************************************************)
EXTENDS Integers, Sequences, FiniteSets, TLC

VARIABLES logical_plan, result, pc, partitions, two_stage_out, single_out,
          lhs, rhs, out, udf, inputs, field, series

vars == <<logical_plan, result, pc, partitions, two_stage_out, single_out,
          lhs, rhs, out, udf, inputs, field, series>>

(***************************************************************************)
(* Bounds of the model.                                                    *)
(***************************************************************************)
MaxDepth == 2
MaxPartitions == 2
MaxAggs == 2
MaxRows == 2
MaxLen == 2

MinOf(a, b) == IF a <= b THEN a ELSE b

(***************************************************************************)
(* Expressions (daft_dsl::Expr, daft_dsl::AggExpr): column reference,      *)
(* alias, and the seven aggregate wrappers.                                *)
(***************************************************************************)
Column(name) == [op |-> "Column", name |-> name]

alias(e, name) == [op |-> "Alias", expr |-> e, name |-> name]

AggKinds == {"Count", "Sum", "Mean", "Min", "Max", "List", "Concat"}

AggExpr(kind, e) == [kind |-> kind, expr |-> e]

\* Expr::name: the output column name of an expression.
expr_name(e) == e.name

RECURSIVE expr_semantic_id(_)
\* Expr::semantic_id: a column's id is its name; an alias does not change it.
expr_semantic_id(e) ==
    IF e.op = "Column" THEN e.name ELSE expr_semantic_id(e.expr)

agg_suffix(kind) ==
    CASE kind = "Count" -> ".local_count()"
      [] kind = "Sum" -> ".local_sum()"
      [] kind = "Mean" -> ".local_mean()"
      [] kind = "Min" -> ".local_min()"
      [] kind = "Max" -> ".local_max()"
      [] kind = "List" -> ".local_list()"
      [] kind = "Concat" -> ".local_concat()"

\* AggExpr::semantic_id: a deterministic function of the aggregation's structure.
semantic_id(agg_expr) == expr_semantic_id(agg_expr.expr) \o agg_suffix(agg_expr.kind)

(***************************************************************************)
(* Logical plans (crate::logical_plan::LogicalPlan).                       *)
(***************************************************************************)
PartitionSchemes == {"Unknown", "Random", "Hash", "Range"}

SourceFormats == {"Parquet", "Csv", "Json", "InMemory"}

Source(source_info, num_partitions) ==
    [node |-> "Source", schema |-> <<"x", "y">>, source_info |-> source_info,
     partition_spec |-> [scheme |-> "Unknown", num_partitions |-> num_partitions],
     limit |-> <<>>, filters |-> <<>>]

LogicalFilter(input) ==
    [node |-> "Filter", input |-> input, predicate |-> Column("x")]

LogicalLimit(input) == [node |-> "Limit", input |-> input, limit |-> 1]

LogicalSort(input) ==
    [node |-> "Sort", input |-> input, sort_by |-> <<Column("y")>>,
     descending |-> <<FALSE>>]

LogicalRepartition(input, num_partitions, partition_by, scheme) ==
    [node |-> "Repartition", input |-> input, num_partitions |-> num_partitions,
     partition_by |-> partition_by, scheme |-> scheme]

LogicalDistinct(input) == [node |-> "Distinct", input |-> input]

LogicalAggregate(input, aggregations, group_by) ==
    [node |-> "Aggregate", input |-> input, aggregations |-> aggregations,
     group_by |-> group_by]

RECURSIVE partition_spec(_)
\* LogicalPlan::partition_spec: a Source carries its own, a Repartition sets the
\* requested one, a Sort range-partitions, every other node keeps its input's.
partition_spec(lp) ==
    CASE lp.node = "Source" -> lp.partition_spec
      [] lp.node = "Repartition" ->
            [scheme |-> lp.scheme, num_partitions |-> lp.num_partitions]
      [] lp.node = "Sort" ->
            [scheme |-> "Range",
             num_partitions |-> partition_spec(lp.input).num_partitions]
      [] OTHER -> partition_spec(lp.input)

RECURSIVE schema(_)
\* LogicalPlan::schema: the ordered field names; an Aggregate's are its
\* group-by names followed by its aggregations' names.
schema(lp) ==
    CASE lp.node = "Source" -> lp.schema
      [] lp.node = "Aggregate" ->
            [i \in 1..Len(lp.group_by) |-> expr_name(lp.group_by[i])]
            \o [i \in 1..Len(lp.aggregations) |-> expr_name(lp.aggregations[i].expr)]
      [] OTHER -> schema(lp.input)

(***************************************************************************)
(* Physical plans (crate::physical_plan::PhysicalPlan).                    *)
(***************************************************************************)
NoPlan == [op |-> "None"]

ScanOps == {"TabularScanParquet", "TabularScanCsv", "TabularScanJson", "InMemoryScan"}

TabularScan(op, lp) ==
    [op |-> op, schema |-> lp.schema, partition_spec |-> lp.partition_spec,
     limit |-> lp.limit, filters |-> lp.filters]

InMemoryScan(lp) ==
    [op |-> "InMemoryScan", schema |-> lp.schema, partition_spec |-> lp.partition_spec]

Filter(predicate, input) == [op |-> "Filter", predicate |-> predicate, input |-> input]

Limit(limit, num_partitions, input) ==
    [op |-> "Limit", limit |-> limit, num_partitions |-> num_partitions, input |-> input]

Sort(sort_by, descending, num_partitions, input) ==
    [op |-> "Sort", sort_by |-> sort_by, descending |-> descending,
     num_partitions |-> num_partitions, input |-> input]

Split(input_num_partitions, output_num_partitions, input) ==
    [op |-> "Split", input_num_partitions |-> input_num_partitions,
     output_num_partitions |-> output_num_partitions, input |-> input]

FanoutRandom(num_partitions, input) ==
    [op |-> "FanoutRandom", num_partitions |-> num_partitions, input |-> input]

FanoutByHash(num_partitions, partition_by, input) ==
    [op |-> "FanoutByHash", num_partitions |-> num_partitions,
     partition_by |-> partition_by, input |-> input]

ReduceMerge(input) == [op |-> "ReduceMerge", input |-> input]

Aggregate(input, aggregations, group_by) ==
    [op |-> "Aggregate", input |-> input, aggregations |-> aggregations,
     group_by |-> group_by]

Coalesce(input, num_from, num_to) ==
    [op |-> "Coalesce", input |-> input, num_from |-> num_from, num_to |-> num_to]

(***************************************************************************)
(* DaftResult<PhysicalPlan>, extended with the outcome "the call panicked".*)
(***************************************************************************)
Ok(p) == [tag |-> "Ok", kind |-> "", plan |-> p]

Err(kind) == [tag |-> "Err", kind |-> kind, plan |-> NoPlan]

Panic(kind) == [tag |-> "Panic", kind |-> kind, plan |-> NoPlan]

NoResult == [tag |-> "None", kind |-> "", plan |-> NoPlan]

(***************************************************************************)
(* plan, one operator per match arm of planner.rs.                         *)
(***************************************************************************)
plan_Source(lp) ==
    CASE lp.source_info = "Parquet" -> Ok(TabularScan("TabularScanParquet", lp))
      [] lp.source_info = "Csv" -> Ok(TabularScan("TabularScanCsv", lp))
      [] lp.source_info = "Json" -> Ok(TabularScan("TabularScanJson", lp))
      [] lp.source_info = "InMemory" -> Ok(InMemoryScan(lp))

plan_Filter(lp, input_physical) == Ok(Filter(lp.predicate, input_physical))

plan_Limit(lp, input_physical) ==
    Ok(Limit(lp.limit, partition_spec(lp).num_partitions, input_physical))

plan_Sort(lp, input_physical) ==
    LET num_partitions == partition_spec(lp).num_partitions
    IN  Ok(Sort(lp.sort_by, lp.descending, num_partitions, input_physical))

\* Faulty variant: the Random arm returns the fan-out without its ReduceMerge.
plan_Repartition_unpaired(lp, input_physical) ==
    CASE lp.scheme = "Unknown" ->
            Ok(Split(partition_spec(lp.input).num_partitions, lp.num_partitions,
                     input_physical))
      [] lp.scheme = "Random" -> Ok(FanoutRandom(lp.num_partitions, input_physical))
      [] lp.scheme = "Hash" ->
            Ok(ReduceMerge(FanoutByHash(lp.num_partitions, lp.partition_by,
                                        input_physical)))
      [] lp.scheme = "Range" -> Panic("unreachable")

\* Faulty variant: Split is built with its two partition counts exchanged.
plan_Repartition_swapped(lp, input_physical) ==
    CASE lp.scheme = "Unknown" ->
            Ok(Split(lp.num_partitions, partition_spec(lp.input).num_partitions,
                     input_physical))
      [] lp.scheme = "Random" ->
            Ok(ReduceMerge(FanoutRandom(lp.num_partitions, input_physical)))
      [] lp.scheme = "Hash" ->
            Ok(ReduceMerge(FanoutByHash(lp.num_partitions, lp.partition_by,
                                        input_physical)))
      [] lp.scheme = "Range" -> Panic("unreachable")

plan_Repartition(lp, input_physical) ==
    CASE lp.scheme = "Unknown" ->
            Ok(Split(partition_spec(lp.input).num_partitions, lp.num_partitions,
                     input_physical))
      [] lp.scheme = "Random" ->
            LET split_op == FanoutRandom(lp.num_partitions, input_physical)
            IN  Ok(ReduceMerge(split_op))
      [] lp.scheme = "Hash" ->
            LET split_op == FanoutByHash(lp.num_partitions, lp.partition_by,
                                         input_physical)
            IN  Ok(ReduceMerge(split_op))
      [] lp.scheme = "Range" -> Panic("unreachable")

\* Faulty variant: the shuffle of the two-stage distinct hashes on the first column only.
plan_Distinct_first_col(lp, input_physical) ==
    LET names == schema(lp.input)
        col_exprs == [i \in 1..Len(names) |-> Column(names[i])]
        agg_op == Aggregate(input_physical, <<>>, col_exprs)
        num_partitions == partition_spec(lp).num_partitions
    IN  IF num_partitions > 1
        THEN LET split_op == FanoutByHash(num_partitions,
                                          SubSeq(col_exprs, 1, MinOf(1, Len(col_exprs))),
                                          agg_op)
                 reduce_op == ReduceMerge(split_op)
             IN  Ok(Aggregate(reduce_op, <<>>, col_exprs))
        ELSE Ok(agg_op)

plan_Distinct(lp, input_physical) ==
    LET names == schema(lp.input)
        col_exprs == [i \in 1..Len(names) |-> Column(names[i])]
        agg_op == Aggregate(input_physical, <<>>, col_exprs)
        num_partitions == partition_spec(lp).num_partitions
    IN  IF num_partitions > 1
        THEN LET split_op == FanoutByHash(num_partitions, col_exprs, agg_op)
                 reduce_op == ReduceMerge(split_op)
             IN  Ok(Aggregate(reduce_op, <<>>, col_exprs))
        ELSE Ok(agg_op)

first_stage_agg(agg_expr, field_id) ==
    CASE agg_expr.kind = "Count" -> AggExpr("Count", alias(agg_expr.expr, field_id))
      [] agg_expr.kind = "Sum" -> AggExpr("Sum", alias(agg_expr.expr, field_id))
      [] agg_expr.kind = "Mean" -> AggExpr("Mean", alias(agg_expr.expr, field_id))
      [] agg_expr.kind = "Min" -> AggExpr("Min", alias(agg_expr.expr, field_id))
      [] agg_expr.kind = "Max" -> AggExpr("Max", alias(agg_expr.expr, field_id))
      [] agg_expr.kind = "List" -> AggExpr("List", alias(agg_expr.expr, field_id))
      [] agg_expr.kind = "Concat" -> AggExpr("Concat", alias(agg_expr.expr, field_id))

\* Faulty variant: the Max arm of the second stage folds the partial maxima with Min.
second_stage_agg_max_as_min(field_id, original_name, agg_expr) ==
    LET e == alias(Column(field_id), original_name)
    IN  CASE agg_expr.kind = "Count" -> AggExpr("Count", e)
          [] agg_expr.kind = "Sum" -> AggExpr("Sum", e)
          [] agg_expr.kind = "Mean" -> AggExpr("Mean", e)
          [] agg_expr.kind = "Min" -> AggExpr("Min", e)
          [] agg_expr.kind = "Max" -> AggExpr("Min", e)
          [] agg_expr.kind = "List" -> AggExpr("List", e)
          [] agg_expr.kind = "Concat" -> AggExpr("Concat", e)

second_stage_agg(field_id, original_name, agg_expr) ==
    LET e == alias(Column(field_id), original_name)
    IN  CASE agg_expr.kind = "Count" -> AggExpr("Count", e)
          [] agg_expr.kind = "Sum" -> AggExpr("Sum", e)
          [] agg_expr.kind = "Mean" -> AggExpr("Mean", e)
          [] agg_expr.kind = "Min" -> AggExpr("Min", e)
          [] agg_expr.kind = "Max" -> AggExpr("Max", e)
          [] agg_expr.kind = "List" -> AggExpr("List", e)
          [] agg_expr.kind = "Concat" -> AggExpr("Concat", e)

\* Faulty variant: the second stage pairs aggregations with the intermediate names in
\* reverse order.
plan_Aggregate_reversed(lp, result_plan) ==
    IF Len(lp.group_by) # 0
    THEN Panic("unimplemented")
    ELSE
      LET num_input_partitions == partition_spec(lp).num_partitions
          aggregations == lp.aggregations
      IN  IF num_input_partitions = 1
          THEN Ok(Aggregate(result_plan, aggregations, <<>>))
          ELSE
            LET names == schema(lp)
                k == Len(aggregations)
                intermediate_names == [i \in 1..k |-> semantic_id(aggregations[i])]
                first_stage_aggs ==
                    [i \in 1..k |-> first_stage_agg(aggregations[i],
                                                    intermediate_names[i])]
                n2 == MinOf(k, Len(names))
                second_stage_aggs ==
                    [i \in 1..n2 |-> second_stage_agg(intermediate_names[n2 + 1 - i],
                                                      names[i], aggregations[i])]
                first == Aggregate(result_plan, first_stage_aggs, <<>>)
                coalesced == Coalesce(first, num_input_partitions, 1)
            IN  Ok(Aggregate(coalesced, second_stage_aggs, <<>>))

plan_Aggregate(lp, result_plan) ==
    IF Len(lp.group_by) # 0
    THEN Panic("unimplemented")
    ELSE
      LET num_input_partitions == partition_spec(lp).num_partitions
          aggregations == lp.aggregations
      IN  IF num_input_partitions = 1
          THEN Ok(Aggregate(result_plan, aggregations, <<>>))
          ELSE
            LET names == schema(lp)
                k == Len(aggregations)
                intermediate_names == [i \in 1..k |-> semantic_id(aggregations[i])]
                first_stage_aggs ==
                    [i \in 1..k |-> first_stage_agg(aggregations[i],
                                                    intermediate_names[i])]
                n2 == MinOf(k, Len(names))
                second_stage_aggs ==
                    [i \in 1..n2 |-> second_stage_agg(intermediate_names[i],
                                                      names[i], aggregations[i])]
                first == Aggregate(result_plan, first_stage_aggs, <<>>)
                coalesced == Coalesce(first, num_input_partitions, 1)
            IN  Ok(Aggregate(coalesced, second_stage_aggs, <<>>))

RECURSIVE plan(_)
\* plan: every arm but Source plans its input first and returns early (the ?
\* operator) when that did not yield a plan; a panic below unwinds through it.
plan(lp) ==
    IF lp.node = "Source"
    THEN plan_Source(lp)
    ELSE
      LET r == plan(lp.input)
      IN  IF r.tag # "Ok"
          THEN r
          ELSE CASE lp.node = "Filter" -> plan_Filter(lp, r.plan)
                 [] lp.node = "Limit" -> plan_Limit(lp, r.plan)
                 [] lp.node = "Sort" -> plan_Sort(lp, r.plan)
                 [] lp.node = "Repartition" -> plan_Repartition(lp, r.plan)
                 [] lp.node = "Distinct" -> plan_Distinct(lp, r.plan)
                 [] lp.node = "Aggregate" -> plan_Aggregate(lp, r.plan)

(***************************************************************************)
(* Executing an aggregation plan over partitioned rows.  A value is an     *)
(* integer with a validity bit, a row a sequence of named values, a        *)
(* partition a sequence of rows.  A physical Aggregate without group-by    *)
(* runs once per partition and yields one row per partition; Coalesce      *)
(* concatenates partitions.                                                *)
(***************************************************************************)
Valid(v) == [valid |-> TRUE, v |-> v]

Null == [valid |-> FALSE, v |-> 0]

lookup(row, name) ==
    LET i == CHOOSE i \in 1..Len(row) :
                 /\ row[i].name = name
                 /\ \A j \in 1..(i - 1) : row[j].name # name
    IN  row[i].value

RECURSIVE eval_expr(_, _)
eval_expr(e, row) ==
    IF e.op = "Column" THEN lookup(row, e.name) ELSE eval_expr(e.expr, row)

RECURSIVE sum_valid(_)
sum_valid(vals) ==
    IF Len(vals) = 0
    THEN 0
    ELSE (IF vals[1].valid THEN vals[1].v ELSE 0) + sum_valid(Tail(vals))

\* Sum, Min and Max skip nulls and are null when no valid value is left.
fold(kind, vals) ==
    LET present == {vals[i].v : i \in {j \in 1..Len(vals) : vals[j].valid}}
    IN  IF present = {}
        THEN Null
        ELSE CASE kind = "Sum" -> Valid(sum_valid(vals))
               [] kind = "Min" -> Valid(CHOOSE m \in present : \A o \in present : m <= o)
               [] kind = "Max" -> Valid(CHOOSE m \in present : \A o \in present : m >= o)

eval_agg(part, aggs) ==
    [i \in 1..Len(aggs) |->
        [name |-> expr_name(aggs[i].expr),
         value |-> fold(aggs[i].kind,
                        [j \in 1..Len(part) |-> eval_expr(aggs[i].expr, part[j])])]]

RECURSIVE concat_all(_)
concat_all(parts) ==
    IF Len(parts) = 0 THEN <<>> ELSE parts[1] \o concat_all(Tail(parts))

RECURSIVE execute(_, _)
execute(p, source_parts) ==
    CASE p.op \in ScanOps -> source_parts
      [] p.op = "Aggregate" ->
            LET in == execute(p.input, source_parts)
            IN  [i \in 1..Len(in) |-> <<eval_agg(in[i], p.aggregations)>>]
      [] p.op = "Coalesce" -> <<concat_all(execute(p.input, source_parts))>>

EvaluableKinds == {"Sum", "Min", "Max"}

(***************************************************************************)
(* The inputs: logical plans of bounded depth, global aggregations of      *)
(* bounded length over a source, and bounded partitioned data.             *)
(***************************************************************************)
Sources == {Source(f, n) : f \in SourceFormats, n \in 1..MaxPartitions}

PartitionBy == <<Column("y"), Column("x")>>

NestedAggregations ==
    {<<>>} \cup {<<AggExpr(k, Column("x"))>> : k \in AggKinds}
           \cup {<<AggExpr("Sum", Column("x")), AggExpr("Count", alias(Column("y"), "z"))>>}

RECURSIVE depth(_)
depth(lp) == IF lp.node = "Source" THEN 0 ELSE 1 + depth(lp.input)

\* The inner expression of the i-th aggregation; the output names are unique,
\* as Schema requires.
InnerExprs ==
    <<Column("x"), alias(Column("y"), "z"), alias(Column("x"), "w"), Column("y")>>

AggLists ==
    UNION {{[i \in 1..k |-> AggExpr(ks[i], InnerExprs[i])] : ks \in [1..k -> AggKinds]} :
              k \in 0..MinOf(MaxAggs, Len(InnerExprs))}

Values == {-1, 2}

Rows ==
    {<<[name |-> "x", value |-> Valid(a)], [name |-> "y", value |-> Valid(b)]>> :
        a \in Values, b \in Values}

RECURSIVE rows_of(_, _, _, _)
rows_of(s, a, i, j) ==
    IF j > Len(s)
    THEN <<>>
    ELSE (IF a[j] = i THEN <<s[j]>> ELSE <<>>) \o rows_of(s, a, i, j + 1)

\* Every distribution of at most MaxRows rows over n partitions.
PartitionData(n) ==
    UNION {{[i \in 1..n |-> rows_of(s, a, i, 1)] :
               s \in [1..k -> Rows], a \in [1..k -> 1..n]} : k \in 0..MaxRows}

(***************************************************************************)
(* The planner as a state machine.  The logical tree is built upstream,    *)
(* one node at a time, over a source; plan is then applied to it, and the  *)
(* plan of a global aggregation over a source is executed on data.         *)
(***************************************************************************)
Init ==
    /\ logical_plan \in Sources
    /\ result = NoResult
    /\ pc = "build"
    /\ partitions = <<>>
    /\ two_stage_out = <<>>
    /\ single_out = <<>>
    /\ lhs = <<>>
    /\ rhs = <<>>
    /\ out = <<>>
    /\ udf = ""
    /\ inputs = <<>>
    /\ field = <<>>
    /\ series = <<>>

Build(node) ==
    /\ pc = "build"
    /\ depth(logical_plan) < MaxDepth
    /\ logical_plan' = node
    /\ UNCHANGED <<result, pc, partitions, two_stage_out, single_out, lhs, rhs, out, udf, inputs, field, series>>

BuildFilter == Build(LogicalFilter(logical_plan))

BuildLimit == Build(LogicalLimit(logical_plan))

BuildSort == Build(LogicalSort(logical_plan))

BuildRepartition ==
    \E t \in 1..MaxPartitions, s \in PartitionSchemes :
        Build(LogicalRepartition(logical_plan, t, PartitionBy, s))

BuildDistinct == Build(LogicalDistinct(logical_plan))

BuildAggregate ==
    \/ \E a \in NestedAggregations : Build(LogicalAggregate(logical_plan, a, <<>>))
    \/ Build(LogicalAggregate(logical_plan, <<AggExpr("Sum", Column("x"))>>,
                              <<Column("y")>>))

\* A global aggregation with any list of at most MaxAggs aggregations, directly
\* over a Parquet source; the tree is complete after it.
BuildGlobalAggregate ==
    /\ pc = "build"
    /\ logical_plan.node = "Source"
    /\ logical_plan.source_info = "Parquet"
    /\ \E a \in AggLists : logical_plan' = LogicalAggregate(logical_plan, a, <<>>)
    /\ pc' = "ready"
    /\ UNCHANGED <<result, partitions, two_stage_out, single_out, lhs, rhs, out, udf, inputs, field, series>>

PlanCall ==
    /\ pc \in {"build", "ready"}
    /\ result' = plan(logical_plan)
    /\ pc' = "planned"
    /\ UNCHANGED <<logical_plan, partitions, two_stage_out, single_out, lhs, rhs, out, udf, inputs, field, series>>

Execute ==
    /\ pc = "planned"
    /\ result.tag = "Ok"
    /\ logical_plan.node = "Aggregate"
    /\ logical_plan.input.node = "Source"
    /\ \A i \in 1..Len(logical_plan.aggregations) :
          logical_plan.aggregations[i].kind \in EvaluableKinds
    /\ \E parts \in PartitionData(partition_spec(logical_plan).num_partitions) :
          /\ partitions' = parts
          /\ two_stage_out' = execute(result.plan, parts)
          /\ single_out' = <<<<eval_agg(concat_all(parts), logical_plan.aggregations)>>>>
    /\ pc' = "executed"
    /\ UNCHANGED <<logical_plan, result, lhs, rhs, out, udf, inputs, field, series>>

Next ==
    \/ BuildFilter
    \/ BuildLimit
    \/ BuildSort
    \/ BuildRepartition
    \/ BuildDistinct
    \/ BuildAggregate
    \/ BuildGlobalAggregate
    \/ PlanCall
    \/ Execute

Spec == Init /\ [][Next]_vars

(***************************************************************************)
(* The element-wise kernels of array/ops/clip.rs on Float32 and Float64    *)
(* arrays.  A float is NaN or a finite number; a slot is a float with a    *)
(* validity bit.                                                           *)
(***************************************************************************)
NaN == [nan |-> TRUE, v |-> 0]

Finite(v) == [nan |-> FALSE, v |-> v]

FiniteValues == {1, 2, 3}

Floats == {NaN} \cup {Finite(v) : v \in FiniteValues}

FloatTypes == {"Float32", "Float64"}

NullSlot == [valid |-> FALSE, value |-> Finite(0)]

Slots == {NullSlot} \cup {[valid |-> TRUE, value |-> f] : f \in Floats}

\* f32::min, f64::min: if one of the arguments is NaN, the other is returned.
float_min(l, r) ==
    IF l.nan THEN r
    ELSE IF r.nan THEN l
    ELSE IF l.v <= r.v THEN l ELSE r

\* f32::max, f64::max: if one of the arguments is NaN, the other is returned.
float_max(l, r) ==
    IF l.nan THEN r
    ELSE IF r.nan THEN l
    ELSE IF l.v >= r.v THEN l ELSE r

\* DataArray::binary_apply on arrays of one length: a result slot is valid iff
\* both input slots are, and then holds the value of the closure f.
binary_apply(l, r, f) ==
    [dtype |-> l.dtype,
     data |-> [i \in 1..Len(l.data) |->
                  IF l.data[i].valid /\ r.data[i].valid
                  THEN [valid |-> TRUE, value |-> f[l.data[i].value, r.data[i].value]]
                  ELSE NullSlot]]

\* DataArray<Float32Type>::min, DataArray<Float64Type>::min
array_min(l, r) == binary_apply(l, r, [a \in Floats, b \in Floats |-> float_min(a, b)])

\* DataArray<Float32Type>::max, DataArray<Float64Type>::max
array_max(l, r) == binary_apply(l, r, [a \in Floats, b \in Floats |-> float_max(a, b)])

InitKernel ==
    /\ \E t \in FloatTypes, n \in 0..MaxLen :
          /\ lhs \in {[dtype |-> t, data |-> d] : d \in [1..n -> Slots]}
          /\ rhs \in {[dtype |-> t, data |-> d] : d \in [1..n -> Slots]}
    /\ out = <<>>
    /\ udf = ""
    /\ inputs = <<>>
    /\ field = <<>>
    /\ series = <<>>
    /\ pc = "start"
    /\ logical_plan = Source("Parquet", 1)
    /\ result = NoResult
    /\ partitions = <<>>
    /\ two_stage_out = <<>>
    /\ single_out = <<>>

KernelMin ==
    /\ pc = "start"
    /\ out' = array_min(lhs, rhs)
    /\ pc' = "min"
    /\ UNCHANGED <<lhs, rhs, logical_plan, result, partitions, two_stage_out, single_out,
                 udf, inputs, field, series>>

KernelMax ==
    /\ pc = "start"
    /\ out' = array_max(lhs, rhs)
    /\ pc' = "max"
    /\ UNCHANGED <<lhs, rhs, logical_plan, result, partitions, two_stage_out, single_out,
                 udf, inputs, field, series>>

NextKernel == KernelMin \/ KernelMax

SpecKernel == InitKernel /\ [][NextKernel]_vars

(***************************************************************************)
(* Dtypes and the promotion lattice (InferDataType::comparison_op).        *)
(***************************************************************************)
SignedTypes == {"Int8", "Int16", "Int32", "Int64"}

UnsignedTypes == {"UInt8", "UInt16", "UInt32", "UInt64"}

IntTypes == SignedTypes \cup UnsignedTypes

NumericTypes == IntTypes \cup FloatTypes

NonNumericTypes == {"Utf8", "Boolean"}

DataTypes == NumericTypes \cup NonNumericTypes

\* DataType::is_numeric
is_numeric(dt) == dt \in NumericTypes

width(dt) ==
    CASE dt \in {"Int8", "UInt8"} -> 8
      [] dt \in {"Int16", "UInt16"} -> 16
      [] dt \in {"Int32", "UInt32", "Float32"} -> 32
      [] dt \in {"Int64", "UInt64", "Float64"} -> 64

signed_of_width(w) ==
    CASE w = 8 -> "Int8" [] w = 16 -> "Int16" [] w = 32 -> "Int32" [] w = 64 -> "Int64"

unsigned_of_width(w) ==
    CASE w = 8 -> "UInt8" [] w = 16 -> "UInt16" [] w = 32 -> "UInt32" [] w = 64 -> "UInt64"

MaxOf(a, b) == IF a >= b THEN a ELSE b

\* The signed width that holds every value of an unsigned dtype, saturating at 64.
next_wider_signed_width(dt) == MinOf(2 * width(dt), 64)

TypeOk(dt) == [tag |-> "Ok", kind |-> "", dtype |-> dt]

TypeErr(kind) == [tag |-> "Err", kind |-> kind, dtype |-> ""]

\* comparison_op: the dtype both operands are cast to.  A float dominates an
\* integer; two integers of one signedness take the wider; a signed and an
\* unsigned integer take the signed dtype that holds the unsigned one, Int64
\* at most; a non-numeric operand is a type error.
comparison_op(a, b) ==
    IF ~is_numeric(a) \/ ~is_numeric(b) THEN TypeErr("TypeError")
    ELSE IF a = "Float64" \/ b = "Float64" THEN TypeOk("Float64")
    ELSE IF a = "Float32" \/ b = "Float32" THEN TypeOk("Float32")
    ELSE LET w == MaxOf(width(a), width(b))
         IN  IF a \in UnsignedTypes /\ b \in UnsignedTypes
             THEN TypeOk(unsigned_of_width(w))
             ELSE IF a \in SignedTypes /\ b \in SignedTypes
             THEN TypeOk(signed_of_width(w))
             ELSE LET u == IF a \in UnsignedTypes THEN a ELSE b
                  IN  TypeOk(signed_of_width(MaxOf(w, next_wider_signed_width(u))))

(***************************************************************************)
(* Integer values.  An integer is held as its 64-bit two's complement      *)
(* pattern, four 16-bit limbs with the most significant first, sign- or    *)
(* zero-extended from the width of its dtype.                              *)
(***************************************************************************)
ZeroPattern == <<0, 0, 0, 0>>

MinusOnePattern == <<65535, 65535, 65535, 65535>>

\* The smallest value of an integer dtype.
min_value(dt) ==
    CASE dt \in UnsignedTypes -> ZeroPattern
      [] dt = "Int8" -> <<65535, 65535, 65535, 65408>>
      [] dt = "Int16" -> <<65535, 65535, 65535, 32768>>
      [] dt = "Int32" -> <<65535, 65535, 32768, 0>>
      [] dt = "Int64" -> <<32768, 0, 0, 0>>

\* The largest value of an integer dtype.
max_value(dt) ==
    CASE dt = "Int8" -> <<0, 0, 0, 127>>
      [] dt = "UInt8" -> <<0, 0, 0, 255>>
      [] dt = "Int16" -> <<0, 0, 0, 32767>>
      [] dt = "UInt16" -> <<0, 0, 0, 65535>>
      [] dt = "Int32" -> <<0, 0, 32767, 65535>>
      [] dt = "UInt32" -> <<0, 0, 65535, 65535>>
      [] dt = "Int64" -> <<32767, 65535, 65535, 65535>>
      [] dt = "UInt64" -> MinusOnePattern

\* Unsigned order of two patterns.
unsigned_less(p, q) ==
    \E i \in 1..4 : p[i] < q[i] /\ \A j \in 1..(i - 1) : p[j] = q[j]

is_negative(dt, p) == dt \in SignedTypes /\ p[1] >= 32768

\* The order of the integers that pattern p of dtype a and pattern q of dtype b
\* stand for.
value_less(a, p, b, q) ==
    IF is_negative(a, p) # is_negative(b, q)
    THEN is_negative(a, p)
    ELSE unsigned_less(p, q)

value_equal(a, p, b, q) == is_negative(a, p) = is_negative(b, q) /\ p = q

value_leq(a, p, b, q) == value_less(a, p, b, q) \/ value_equal(a, p, b, q)

\* Ord::cmp of the native type of dt.
native_less(dt, p, q) == value_less(dt, p, dt, q)

\* A wrapping integer cast: the low width(to) bits, extended by to's signedness.
wrapping_cast(p, to) ==
    LET w == width(to)
        low8 == p[4] % 256
        sign == to \in SignedTypes /\
                CASE w = 8 -> low8 >= 128
                  [] w = 16 -> p[4] >= 32768
                  [] w = 32 -> p[3] >= 32768
                  [] w = 64 -> p[1] >= 32768
        ext == IF sign THEN 65535 ELSE 0
    IN  CASE w = 8 -> <<ext, ext, ext, IF sign THEN 65280 + low8 ELSE low8>>
          [] w = 16 -> <<ext, ext, ext, p[4]>>
          [] w = 32 -> <<ext, ext, p[3], p[4]>>
          [] w = 64 -> p

\* What a cast does with a value its target cannot hold.
CastModes == {"wrap", "null"}

\* The cast of one slot from an integer dtype to an integer dtype; a null stays
\* null, a value the target holds is kept.
cast_slot(slot, from, to, mode) ==
    IF ~slot.valid THEN NullSlot
    ELSE LET q == wrapping_cast(slot.value, to)
         IN  IF value_equal(from, slot.value, to, q) \/ mode = "wrap"
             THEN [valid |-> TRUE, value |-> q]
             ELSE NullSlot

(***************************************************************************)
(* Integer kernels: DataArray<T>::min and DataArray<T>::max, T::Native: Ord *)
(***************************************************************************)
Limbs == 0..65535

Patterns == Limbs \X Limbs \X Limbs \X Limbs

\* Faulty variant: max returns the smaller operand.
int_max_as_min(dt, p, q) == IF native_less(dt, q, p) THEN q ELSE p

\* Ord::min and Ord::max at the native type of dt.
int_min(dt, p, q) == IF native_less(dt, q, p) THEN q ELSE p

int_max(dt, p, q) == IF native_less(dt, q, p) THEN p ELSE q

DataArray_min(l, r) ==
    binary_apply(l, r, [a \in Patterns, b \in Patterns |-> int_min(l.dtype, a, b)])

DataArray_max(l, r) ==
    binary_apply(l, r, [a \in Patterns, b \in Patterns |-> int_max(l.dtype, a, b)])

(***************************************************************************)
(* Series::binary_min, Series::binary_max and Series::clip.                *)
(***************************************************************************)
NoSeries == [name |-> "", dtype |-> "", data |-> <<>>]

SeriesOk(s, n) == [tag |-> "Ok", kind |-> "", series |-> s, kernels |-> n]

SeriesErr(kind, n) == [tag |-> "Err", kind |-> kind, series |-> NoSeries, kernels |-> n]

\* Series::cast to a numeric dtype; mode is what an integer cast does with a
\* value that the target cannot hold.
cast(s, to, mode) ==
    [name |-> s.name, dtype |-> to,
     data |-> [i \in 1..Len(s.data) |-> cast_slot(s.data[i], s.dtype, to, mode)]]

into_series(name, array) == [name |-> name, dtype |-> array.dtype, data |-> array.data]

binary_min(self, other, mode) ==
    LET t == comparison_op(self.dtype, other.dtype)
    IN  IF t.tag = "Err" THEN SeriesErr(t.kind, 0)
        ELSE IF t.dtype \in IntTypes
        THEN SeriesOk(into_series(self.name,
                 DataArray_min(cast(self, t.dtype, mode), cast(other, t.dtype, mode))), 1)
        ELSE IF t.dtype \in FloatTypes
        THEN SeriesOk(into_series(self.name,
                 array_min(cast(self, t.dtype, mode), cast(other, t.dtype, mode))), 1)
        ELSE SeriesErr("TypeError", 0)

binary_max(self, other, mode) ==
    LET t == comparison_op(self.dtype, other.dtype)
    IN  IF t.tag = "Err" THEN SeriesErr(t.kind, 0)
        ELSE IF t.dtype \in IntTypes
        THEN SeriesOk(into_series(self.name,
                 DataArray_max(cast(self, t.dtype, mode), cast(other, t.dtype, mode))), 1)
        ELSE IF t.dtype \in FloatTypes
        THEN SeriesOk(into_series(self.name,
                 array_max(cast(self, t.dtype, mode), cast(other, t.dtype, mode))), 1)
        ELSE SeriesErr("TypeError", 0)

\* Faulty variant: the upper bound is applied before the lower bound.
clip_min_first(self, min, max, mode) ==
    LET m == binary_min(self, max, mode)
    IN  IF m.tag = "Err" THEN m
        ELSE LET r == binary_max(m.series, min, mode)
             IN  [r EXCEPT !.kernels = m.kernels + r.kernels]

\* self.binary_max(min)?.binary_min(max)
clip(self, min, max, mode) ==
    LET m == binary_max(self, min, mode)
    IN  IF m.tag = "Err" THEN m
        ELSE LET r == binary_min(m.series, max, mode)
             IN  [r EXCEPT !.kernels = m.kernels + r.kernels]

(***************************************************************************)
(* The scalar functions BinaryMin, BinaryMax and Clip.                     *)
(***************************************************************************)
NoField == [name |-> "", dtype |-> ""]

\* The result of to_field, with the number of input fields it resolved.
FieldOk(f, n) == [tag |-> "Ok", kind |-> "", field |-> f, resolved |-> n]

FieldErr(kind, n) == [tag |-> "Err", kind |-> kind, field |-> NoField, resolved |-> n]

Field(name, dtype) == [name |-> name, dtype |-> dtype]

\* Expr::to_field of a column of the schema.
to_field(input) == Field(input.name, input.dtype)

BinaryMin_to_field(ins) ==
    IF Len(ins) # 2 THEN FieldErr("SchemaMismatch", 0)
    ELSE LET lhs_field == to_field(ins[1])
             rhs_field == to_field(ins[2])
         IN  IF ~is_numeric(lhs_field.dtype) \/ ~is_numeric(rhs_field.dtype)
             THEN FieldErr("TypeError", 2)
             ELSE LET t == comparison_op(lhs_field.dtype, rhs_field.dtype)
                  IN  IF t.tag = "Err" THEN FieldErr(t.kind, 2)
                      ELSE FieldOk(Field(lhs_field.name, t.dtype), 2)

BinaryMin_evaluate(ins, mode) ==
    IF Len(ins) # 2 THEN SeriesErr("ValueError", 0)
    ELSE binary_min(ins[1], ins[2], mode)

BinaryMax_to_field(ins) ==
    IF Len(ins) # 2 THEN FieldErr("SchemaMismatch", 0)
    ELSE LET lhs_field == to_field(ins[1])
             rhs_field == to_field(ins[2])
         IN  IF ~is_numeric(lhs_field.dtype) \/ ~is_numeric(rhs_field.dtype)
             THEN FieldErr("TypeError", 2)
             ELSE LET t == comparison_op(lhs_field.dtype, rhs_field.dtype)
                  IN  IF t.tag = "Err" THEN FieldErr(t.kind, 2)
                      ELSE FieldOk(Field(lhs_field.name, t.dtype), 2)

BinaryMax_evaluate(ins, mode) ==
    IF Len(ins) # 2 THEN SeriesErr("ValueError", 0)
    ELSE binary_max(ins[1], ins[2], mode)

\* Faulty variant: the dtype of the upper bound is left out of the promotion.
Clip_to_field_intermediate(ins) ==
    IF Len(ins) # 3 THEN FieldErr("SchemaMismatch", 0)
    ELSE LET array_field == to_field(ins[1])
             min_field == to_field(ins[2])
             max_field == to_field(ins[3])
         IN  IF ~is_numeric(array_field.dtype) \/ ~is_numeric(min_field.dtype)
                \/ ~is_numeric(max_field.dtype)
             THEN FieldErr("TypeError", 3)
             ELSE LET intermediate == comparison_op(array_field.dtype, min_field.dtype)
                  IN  IF intermediate.tag = "Err" THEN FieldErr(intermediate.kind, 3)
                      ELSE FieldOk(Field(array_field.name, intermediate.dtype), 3)

Clip_to_field(ins) ==
    IF Len(ins) # 3 THEN FieldErr("SchemaMismatch", 0)
    ELSE LET array_field == to_field(ins[1])
             min_field == to_field(ins[2])
             max_field == to_field(ins[3])
         IN  IF ~is_numeric(array_field.dtype) \/ ~is_numeric(min_field.dtype)
                \/ ~is_numeric(max_field.dtype)
             THEN FieldErr("TypeError", 3)
             ELSE LET intermediate == comparison_op(array_field.dtype, min_field.dtype)
                  IN  IF intermediate.tag = "Err" THEN FieldErr(intermediate.kind, 3)
                      ELSE LET t == comparison_op(max_field.dtype, intermediate.dtype)
                           IN  IF t.tag = "Err" THEN FieldErr(t.kind, 3)
                               ELSE FieldOk(Field(array_field.name, t.dtype), 3)

\* Faulty variant: inputs after the third are accepted and ignored.
Clip_evaluate_extra_inputs(ins, mode) ==
    IF Len(ins) < 3 THEN SeriesErr("ValueError", 0)
    ELSE clip(ins[1], ins[2], ins[3], mode)

Clip_evaluate(ins, mode) ==
    IF Len(ins) # 3 THEN SeriesErr("ValueError", 0)
    ELSE clip(ins[1], ins[2], ins[3], mode)

Functions == {"binary_min", "binary_max", "clip"}

arity(f) == IF f = "clip" THEN 3 ELSE 2

function_to_field(f, ins) ==
    CASE f = "binary_min" -> BinaryMin_to_field(ins)
      [] f = "binary_max" -> BinaryMax_to_field(ins)
      [] f = "clip" -> Clip_to_field(ins)

function_evaluate(f, ins, mode) ==
    CASE f = "binary_min" -> BinaryMin_evaluate(ins, mode)
      [] f = "binary_max" -> BinaryMax_evaluate(ins, mode)
      [] f = "clip" -> Clip_evaluate(ins, mode)

(***************************************************************************)
(* Specification of the scalar functions: a function is called on a list   *)
(* of input series, first to_field, then evaluate.                         *)
(***************************************************************************)
\* The length of the input series.
MaxRowCount == 1

\* The number of inputs of a call.
Arities == 0..4

ColumnNames == <<"x", "lo", "hi", "extra">>

\* The slots enumerated for a series of an integer dtype: null, the smallest
\* value and the largest value.
SlotChoices == 0..2

int_slot(dt, k) ==
    CASE k = 0 -> NullSlot
      [] k = 1 -> [valid |-> TRUE, value |-> min_value(dt)]
      [] k = 2 -> [valid |-> TRUE, value |-> max_value(dt)]

\* Rows are enumerated for the calls that reach a kernel: the function's own
\* number of inputs, all of integer dtypes.
RowCounts(f, dts) ==
    IF Len(dts) = arity(f) /\ \A i \in 1..Len(dts) : dts[i] \in IntTypes
    THEN 0..MaxRowCount
    ELSE {0}

InitFunctions ==
    /\ udf \in Functions
    /\ \E n \in Arities : \E dts \in [1..n -> DataTypes] : \E len \in RowCounts(udf, dts) :
          inputs \in {[i \in 1..n |->
                          [name |-> ColumnNames[i], dtype |-> dts[i],
                           data |-> [r \in 1..len |-> int_slot(dts[i], k[i][r])]]] :
                      k \in [1..n -> [1..len -> SlotChoices]]}
    /\ field = <<>>
    /\ series = <<>>
    /\ pc = "start"
    /\ logical_plan = NoPlan
    /\ result = NoResult
    /\ partitions = <<>>
    /\ two_stage_out = <<>>
    /\ single_out = <<>>
    /\ lhs = <<>>
    /\ rhs = <<>>
    /\ out = <<>>

ToField ==
    /\ pc = "start"
    /\ field' = function_to_field(udf, inputs)
    /\ pc' = "planned"
    /\ UNCHANGED <<logical_plan, result, partitions, two_stage_out, single_out,
                   lhs, rhs, out, udf, inputs, series>>

Evaluate ==
    /\ pc = "planned"
    /\ \E mode \in CastModes : series' = function_evaluate(udf, inputs, mode)
    /\ pc' = "evaluated"
    /\ UNCHANGED <<logical_plan, result, partitions, two_stage_out, single_out,
                   lhs, rhs, out, udf, inputs, field>>

NextFunctions == ToField \/ Evaluate

SpecFunctions == InitFunctions /\ [][NextFunctions]_vars

(***************************************************************************)
(* Properties of the planner.                                              *)
(***************************************************************************)
FanoutOps == {"FanoutRandom", "FanoutByHash"}

RECURSIVE FanoutsPaired(_, _)
FanoutsPaired(p, parent) ==
    /\ p.op \in FanoutOps => parent = "ReduceMerge"
    /\ p.op \notin ScanOps => FanoutsPaired(p.input, p.op)

RECURSIVE HasOp(_, _)
HasOp(p, op) == p.op = op \/ (p.op \notin ScanOps /\ HasOp(p.input, op))

RECURSIVE HasRangeRepartition(_)
HasRangeRepartition(lp) ==
    /\ lp.node # "Source"
    /\ \/ lp.node = "Repartition" /\ lp.scheme = "Range"
       \/ HasRangeRepartition(lp.input)

RECURSIVE HasGroupedAggregate(_)
HasGroupedAggregate(lp) ==
    /\ lp.node # "Source"
    /\ \/ lp.node = "Aggregate" /\ Len(lp.group_by) > 0
       \/ HasGroupedAggregate(lp.input)

Planned == pc \in {"planned", "executed"}

\* The root is a global Aggregate whose input was planned.
GlobalAggregatePlanned ==
    /\ Planned
    /\ logical_plan.node = "Aggregate"
    /\ logical_plan.group_by = <<>>
    /\ plan(logical_plan.input).tag = "Ok"

TwoStage == GlobalAggregatePlanned /\ partition_spec(logical_plan).num_partitions > 1

\* The aggregation lists of the two stages of a plan that has the two-stage shape.
SecondStage == result.plan.aggregations

FirstStage == result.plan.input.input.aggregations

HasTwoStageShape ==
    /\ result.tag = "Ok"
    /\ result.plan.op = "Aggregate"
    /\ result.plan.input.op = "Coalesce"
    /\ result.plan.input.input.op = "Aggregate"

\* C1: in every physical plan that plan returns, every FanoutRandom and every
\* FanoutByHash node is the direct input of a ReduceMerge node; none is the root
\* or the input of a node of another kind.
C1_FanoutUnderReduceMerge ==
    (Planned /\ result.tag = "Ok") => FanoutsPaired(result.plan, "root")

C1_Witness ==
    /\ Planned
    /\ result.tag = "Ok"
    /\ HasOp(result.plan, "FanoutRandom")
    /\ HasOp(result.plan, "FanoutByHash")
    /\ result.plan.op # "ReduceMerge"

\* C2: plan of a tree that holds a Repartition with scheme Range returns an
\* error value of kind NotImplemented; it neither returns a plan nor panics.
C2_RangeReturnsNotImplemented ==
    (Planned /\ HasRangeRepartition(logical_plan))
        => (result.tag = "Err" /\ result.kind = "NotImplemented")

\* C3: plan of a tree that holds an Aggregate with a non-empty group_by returns
\* an error value of kind NotImplemented; it neither returns a plan nor panics.
C3_GroupByReturnsNotImplemented ==
    (Planned /\ HasGroupedAggregate(logical_plan))
        => (result.tag = "Err" /\ result.kind = "NotImplemented")

\* C4: for a global Aggregate over more than one partition, a Count aggregation
\* is either rejected with an error or folded in the second stage by Sum over
\* the intermediate column; the second stage is never Count.
C4_CountFoldedBySum ==
    TwoStage =>
        \A i \in 1..Len(logical_plan.aggregations) :
            logical_plan.aggregations[i].kind = "Count" =>
                \/ result.tag = "Err"
                \/ /\ HasTwoStageShape
                   /\ i <= Len(SecondStage)
                   /\ SecondStage[i].kind = "Sum"
                   /\ expr_semantic_id(SecondStage[i].expr)
                        = semantic_id(logical_plan.aggregations[i])

\* C5: for a global Aggregate over more than one partition, a Mean aggregation
\* is either rejected with an error or decomposed; the plan never applies Mean
\* in the first stage and Mean again to the intermediate column in the second.
C5_MeanNotFoldedByMean ==
    TwoStage =>
        \A i \in 1..Len(logical_plan.aggregations) :
            logical_plan.aggregations[i].kind = "Mean" =>
                \/ result.tag = "Err"
                \/ /\ result.tag = "Ok"
                   /\ ~ /\ HasTwoStageShape
                        /\ i <= Len(SecondStage)
                        /\ FirstStage[i].kind = "Mean"
                        /\ SecondStage[i].kind = "Mean"
                        /\ expr_semantic_id(SecondStage[i].expr)
                             = expr_name(FirstStage[i].expr)

\* C6: for a global Aggregate of Sum, Min and Max aggregations over an input
\* split into more than one partition, executing the two-stage plan yields the
\* values and column names of a single Aggregate over the concatenation of the
\* partitions, for every distribution of the rows.
C6_TwoStageEqualsSingleStage ==
    (pc = "executed" /\ Len(partitions) > 1) => two_stage_out = single_out

C6_Witness ==
    /\ pc = "executed"
    /\ Len(partitions) > 1
    /\ Len(partitions[1]) > 0
    /\ Len(partitions[2]) > 0
    /\ partitions[1] # partitions[2]
    /\ Len(logical_plan.aggregations) = 2
    /\ logical_plan.aggregations[1].kind = "Max"
    /\ logical_plan.aggregations[2].kind = "Sum"
    /\ two_stage_out[1][1][1].value # two_stage_out[1][1][2].value

\* C7: a global Aggregate over one partition is planned as one Aggregate with
\* the aggregations unchanged; over more it is planned as Aggregate over
\* Coalesce(in = partition count, out = 1) over Aggregate, where both lists
\* have one entry per aggregation, the first stage applies the same kind to
\* the inner expression aliased to the semantic id, and the second stage
\* aggregates a reference to that id aliased to the i-th output field name.
C7_AggregateLowering ==
    GlobalAggregatePlanned =>
        LET aggs == logical_plan.aggregations
            k == Len(aggs)
            n == partition_spec(logical_plan).num_partitions
            P == plan(logical_plan.input).plan
        IN  IF n = 1
            THEN result = Ok(Aggregate(P, aggs, <<>>))
            ELSE /\ HasTwoStageShape
                 /\ result.plan.group_by = <<>>
                 /\ result.plan.input = Coalesce(Aggregate(P, FirstStage, <<>>), n, 1)
                 /\ Len(FirstStage) = k
                 /\ Len(SecondStage) = k
                 /\ \A i \in 1..k :
                       /\ FirstStage[i]
                            = AggExpr(aggs[i].kind, alias(aggs[i].expr, semantic_id(aggs[i])))
                       /\ SecondStage[i].kind \in AggKinds
                       /\ SecondStage[i].expr
                            = alias(Column(semantic_id(aggs[i])), schema(logical_plan)[i])

C7_Witness ==
    /\ TwoStage
    /\ HasTwoStageShape
    /\ Len(logical_plan.aggregations) = 2
    /\ semantic_id(logical_plan.aggregations[1]) # semantic_id(logical_plan.aggregations[2])
    /\ logical_plan.aggregations[2].expr.op = "Alias"

\* C8: Repartition to t partitions over the planned input P is Split(in = the
\* logical input's partition count, out = t, P) for Unknown,
\* ReduceMerge(FanoutRandom(t, P)) for Random and
\* ReduceMerge(FanoutByHash(t, partition_by, P)) for Hash, and nothing else.
C8_RepartitionLowering ==
    (/\ Planned
     /\ logical_plan.node = "Repartition"
     /\ logical_plan.scheme \in {"Unknown", "Random", "Hash"}
     /\ plan(logical_plan.input).tag = "Ok")
        => LET P == plan(logical_plan.input).plan
               t == logical_plan.num_partitions
           IN  CASE logical_plan.scheme = "Unknown" ->
                       result = Ok([op |-> "Split",
                                    input_num_partitions |->
                                        partition_spec(logical_plan.input).num_partitions,
                                    output_num_partitions |-> t, input |-> P])
                 [] logical_plan.scheme = "Random" ->
                       result = Ok(ReduceMerge(FanoutRandom(t, P)))
                 [] logical_plan.scheme = "Hash" ->
                       result = Ok(ReduceMerge(
                                     FanoutByHash(t, logical_plan.partition_by, P)))

C8_Witness ==
    /\ Planned
    /\ logical_plan.node = "Repartition"
    /\ logical_plan.scheme = "Unknown"
    /\ logical_plan.input.node = "Sort"
    /\ result.tag = "Ok"
    /\ partition_spec(logical_plan.input).num_partitions # logical_plan.num_partitions

\* C9: Distinct over the planned input P, with cols one column reference per
\* name of the input's schema in order, is Aggregate(P, [], cols) over one
\* partition and Aggregate(ReduceMerge(FanoutByHash(n, cols, Aggregate(P, [],
\* cols))), [], cols) over n > 1 partitions.
C9_DistinctLowering ==
    (/\ Planned
     /\ logical_plan.node = "Distinct"
     /\ plan(logical_plan.input).tag = "Ok")
        => LET P == plan(logical_plan.input).plan
               names == schema(logical_plan.input)
               cols == [i \in 1..Len(names) |-> Column(names[i])]
               n == partition_spec(logical_plan).num_partitions
           IN  IF n = 1
               THEN result = Ok(Aggregate(P, <<>>, cols))
               ELSE /\ n > 1
                    /\ result = Ok(Aggregate(
                                     ReduceMerge(
                                       FanoutByHash(n, cols, Aggregate(P, <<>>, cols))),
                                     <<>>, cols))

C9_Witness ==
    /\ Planned
    /\ logical_plan.node = "Distinct"
    /\ result.tag = "Ok"
    /\ partition_spec(logical_plan).num_partitions > 1
    /\ Len(schema(logical_plan.input)) = 2
    /\ result.plan.input.input.partition_by = <<Column("x"), Column("y")>>

(***************************************************************************)
(* Properties of the float kernels.                                        *)
(***************************************************************************)
\* C10: element-wise min and max on Float32 and Float64 propagate NaN: at every
\* row where both slots are valid the result is NaN if either operand is NaN,
\* and the ordinary smaller (larger) operand otherwise.
C10_FloatMinMaxPropagateNaN ==
    pc \in {"min", "max"} =>
        \A i \in 1..Len(lhs.data) :
            (lhs.data[i].valid /\ rhs.data[i].valid) =>
                LET l == lhs.data[i].value
                    r == rhs.data[i].value
                    o == out.data[i].value
                IN  IF l.nan \/ r.nan
                    THEN o.nan
                    ELSE /\ ~o.nan
                         /\ o.v = IF pc = "min"
                                  THEN (IF l.v <= r.v THEN l.v ELSE r.v)
                                  ELSE (IF l.v >= r.v THEN l.v ELSE r.v)


(***************************************************************************)
(* Properties of Series::clip.                                             *)
(***************************************************************************)
\* Clip has been evaluated on three series of integer dtypes.
ClipEvaluated ==
    /\ pc = "evaluated"
    /\ udf = "clip"
    /\ Len(inputs) = 3
    /\ \A i \in 1..3 : inputs[i].dtype \in IntTypes

NoNulls == \A i \in 1..Len(inputs) : \A r \in 1..Len(inputs[i].data) : inputs[i].data[r].valid

ClipRows == 1..Len(inputs[1].data)

\* The integer of input i at row r is below (at most, equal to) that of input j.
input_less(i, j, r) ==
    value_less(inputs[i].dtype, inputs[i].data[r].value,
               inputs[j].dtype, inputs[j].data[r].value)

input_leq(i, j, r) ==
    value_leq(inputs[i].dtype, inputs[i].data[r].value,
              inputs[j].dtype, inputs[j].data[r].value)

\* The result at row r is a value, the same integer as (below) input i at row r.
result_equals_input(r, i) ==
    /\ series.series.data[r].valid
    /\ value_equal(series.series.dtype, series.series.data[r].value,
                   inputs[i].dtype, inputs[i].data[r].value)

\* The result at row r is a value, an integer from lo to hi at row r.
result_within_bounds(r) ==
    /\ series.series.data[r].valid
    /\ value_leq(inputs[2].dtype, inputs[2].data[r].value,
                 series.series.dtype, series.series.data[r].value)
    /\ value_leq(series.series.dtype, series.series.data[r].value,
                 inputs[3].dtype, inputs[3].data[r].value)

\* The result dtype holds the integer p of dtype dt.
representable(dt, p, to) == value_equal(dt, p, to, wrapping_cast(p, to))

\* The result dtype holds the value of every input at row r.
row_representable(r) ==
    \A i \in 1..3 : representable(inputs[i].dtype, inputs[i].data[r].value, series.series.dtype)

\* The result at row r is what a cast makes of input i at row r.
result_is_cast_of_input(r, i) ==
    \E mode \in CastModes :
        LET c == cast_slot(inputs[i].data[r], inputs[i].dtype, series.series.dtype, mode)
        IN  /\ series.series.data[r].valid = c.valid
            /\ c.valid => series.series.data[r].value = c.value

WrongArity == Len(inputs) # arity(udf)

NonNumericInput == \E i \in 1..Len(inputs) : ~is_numeric(inputs[i].dtype)

\* C13: with a wrong number of inputs to_field returns SchemaMismatch and has
\* resolved no input field, and evaluate returns ValueError and has invoked no
\* kernel; with the right number of inputs, one of them not numeric, to_field
\* returns TypeError; an error carries no Field and no Series.
C13_ArityAndTypeErrors ==
    /\ (pc \in {"planned", "evaluated"} /\ WrongArity) =>
          /\ field.tag = "Err"
          /\ field.kind = "SchemaMismatch"
          /\ field.resolved = 0
          /\ field.field = NoField
    /\ (pc = "evaluated" /\ WrongArity) =>
          /\ series.tag = "Err"
          /\ series.kind = "ValueError"
          /\ series.kernels = 0
          /\ series.series = NoSeries
    /\ (pc \in {"planned", "evaluated"} /\ ~WrongArity /\ NonNumericInput) =>
          /\ field.tag = "Err"
          /\ field.kind = "TypeError"
          /\ field.field = NoField

\* Clip was called with two numeric inputs, the arity of binary_min, and both
\* to_field and evaluate refused.
C13_Witness ==
    /\ pc = "evaluated"
    /\ udf = "clip"
    /\ Len(inputs) = 2
    /\ ~NonNumericInput
    /\ field.kind = "SchemaMismatch"
    /\ series.kind = "ValueError"

\* Clip has been planned and evaluated on three series of numeric dtypes.
ClipOnNumeric ==
    /\ pc = "evaluated"
    /\ udf = "clip"
    /\ Len(inputs) = 3
    /\ \A i \in 1..3 : is_numeric(inputs[i].dtype)

\* The promotion of array with lo, then of that with hi.
promoted_left_to_right ==
    comparison_op(comparison_op(inputs[1].dtype, inputs[2].dtype).dtype, inputs[3].dtype)

\* C14: for every three numeric dtypes the dtype of the field that Clip::to_field
\* declares is the promotion of hi with the promotion of array and lo, is the
\* promotion taken left to right, and is the dtype of the series that
\* Clip::evaluate returns.
C14_DeclaredDtypeIsEvaluatedDtype ==
    ClipOnNumeric =>
        /\ field.tag = "Ok"
        /\ series.tag = "Ok"
        /\ promoted_left_to_right.tag = "Ok"
        /\ field.field.dtype =
              comparison_op(inputs[3].dtype,
                            comparison_op(inputs[1].dtype, inputs[2].dtype).dtype).dtype
        /\ field.field.dtype = promoted_left_to_right.dtype
        /\ field.field.dtype = series.series.dtype

\* Clip of three different dtypes was declared and evaluated at a dtype that
\* none of its inputs has.
C14_Witness ==
    /\ ClipOnNumeric
    /\ Cardinality({inputs[i].dtype : i \in 1..3}) = 3
    /\ field.tag = "Ok"
    /\ series.tag = "Ok"
    /\ field.field.dtype = series.series.dtype
    /\ \A i \in 1..3 : inputs[i].dtype # series.series.dtype
    /\ series.series.dtype # comparison_op(inputs[1].dtype, inputs[2].dtype).dtype
====
